---------------------------- MODULE Spec2Model ----------------------------
(***************************************************************************)
(* Model of examples/07_generate_trading_plan.py: the selection reader,    *)
(* the position reader, the price resolver, the equal-weight allocation,   *)
(* the rebalancer, the plan builder, the report and the output file.       *)
(*                                                                         *)
(* Python's float is IEEE-754 binary64.  It is modelled bit-exactly for    *)
(* finite values: a float is a record [sgn, m, e] of value sgn * m * 2^e   *)
(* whose mantissa m is 0 or a 53-bit natural, and every arithmetic         *)
(* operation rounds to nearest, ties to even.  Mantissas do not fit TLC's  *)
(* 32-bit integers, so they are naturals in base 2^15, least significant   *)
(* limb first.  Infinities, NaN, subnormals and the sign of zero are       *)
(* outside the modelled inputs.                                            *)
(***************************************************************************)
EXTENDS Integers, Sequences, FiniteSets, TLC

(***************************************************************************)
(* Naturals of any size: sequences of limbs, least significant first, no   *)
(* leading (last) zero limb; << >> is 0.                                   *)
(***************************************************************************)
Pow2(n) == 2 ^ n

LimbBits == Pow2(4) - 1

Base == Pow2(LimbBits)

RECURSIVE BNorm(_)
BNorm(a) ==
  IF a = << >> THEN a
  ELSE IF a[Len(a)] = 0 THEN BNorm(SubSeq(a, 1, Len(a) - 1)) ELSE a

RECURSIVE BFromInt(_)
BFromInt(n) ==
  IF n = 0 THEN << >> ELSE <<n % Base>> \o BFromInt(n \div Base)

RECURSIVE BToInt(_)
BToInt(a) ==
  IF a = << >> THEN 0 ELSE a[1] + Base * BToInt(Tail(a))

Limb(a, i) == IF i <= Len(a) THEN a[i] ELSE 0

Min(a, b) == IF a < b THEN a ELSE b

RECURSIVE BCmpFrom(_, _, _)
BCmpFrom(a, b, i) ==
  IF i = 0 THEN 0
  ELSE IF a[i] > b[i] THEN 1
  ELSE IF a[i] < b[i] THEN -1
  ELSE BCmpFrom(a, b, i - 1)

\* -1, 0 or 1 as a < b, a = b, a > b.
BCmp(a, b) ==
  IF Len(a) > Len(b) THEN 1
  ELSE IF Len(a) < Len(b) THEN -1
  ELSE BCmpFrom(a, b, Len(a))

RECURSIVE BAddFrom(_, _, _, _)
BAddFrom(a, b, i, carry) ==
  IF i > Len(a) /\ i > Len(b)
  THEN IF carry = 0 THEN << >> ELSE <<carry>>
  ELSE LET s == Limb(a, i) + Limb(b, i) + carry
       IN  <<s % Base>> \o BAddFrom(a, b, i + 1, s \div Base)

BAdd(a, b) == BAddFrom(a, b, 1, 0)

RECURSIVE BSubFrom(_, _, _, _)
BSubFrom(a, b, i, borrow) ==
  IF i > Len(a) THEN << >>
  ELSE LET d == a[i] - Limb(b, i) - borrow
       IN  IF d < 0 THEN <<d + Base>> \o BSubFrom(a, b, i + 1, 1)
           ELSE <<d>> \o BSubFrom(a, b, i + 1, 0)

\* a - b for a >= b.
BSub(a, b) == BNorm(BSubFrom(a, b, 1, 0))

RECURSIVE BMulSmallFrom(_, _, _, _)
BMulSmallFrom(a, k, i, carry) ==
  IF i > Len(a)
  THEN IF carry = 0 THEN << >> ELSE <<carry>>
  ELSE LET p == a[i] * k + carry
       IN  <<p % Base>> \o BMulSmallFrom(a, k, i + 1, p \div Base)

\* a * k for 0 <= k <= Base.
BMulSmall(a, k) == BNorm(BMulSmallFrom(a, k, 1, 0))

RECURSIVE BDivSmallFrom(_, _, _, _)
BDivSmallFrom(a, k, i, rem) ==
  IF i = 0 THEN [q |-> << >>, r |-> rem]
  ELSE LET cur  == rem * Base + a[i]
           rest == BDivSmallFrom(a, k, i - 1, cur % k)
       IN  [q |-> rest.q \o <<cur \div k>>, r |-> rest.r]

\* A quotient without its leading zero limbs, and the remainder.
BDivNorm(d) == [q |-> BNorm(d.q), r |-> d.r]

\* Quotient and remainder of a by k, 0 < k <= Base.
BDivSmall(a, k) == BDivNorm(BDivSmallFrom(a, k, Len(a), 0))

ZeroLimbs(n) == [i \in 1..n |-> 0]

\* a * 2^n.
BShl(a, n) ==
  IF a = << >> THEN a
  ELSE ZeroLimbs(n \div LimbBits) \o BMulSmall(a, Pow2(n % LimbBits))

\* floor(a / 2^n).
BShr(a, n) ==
  IF n \div LimbBits >= Len(a) THEN << >>
  ELSE BDivSmall(SubSeq(a, n \div LimbBits + 1, Len(a)), Pow2(n % LimbBits)).q

RECURSIVE IntBitLen(_)
IntBitLen(n) == IF n = 0 THEN 0 ELSE 1 + IntBitLen(n \div 2)

BBitLen(a) ==
  IF a = << >> THEN 0 ELSE LimbBits * (Len(a) - 1) + IntBitLen(a[Len(a)])

BBit(a, i) == (Limb(a, i \div LimbBits + 1) \div Pow2(i % LimbBits)) % 2

RECURSIVE BMulFrom(_, _, _)
BMulFrom(a, b, i) ==
  IF i > Len(b) THEN << >>
  ELSE BAdd(ZeroLimbs(i - 1) \o BMulSmall(a, b[i]), BMulFrom(a, b, i + 1))

BMul(a, b) == IF a = << >> \/ b = << >> THEN << >> ELSE BNorm(BMulFrom(a, b, 1))

\* The largest d with b * d <= r, for a divisor b whose top limb is at least
\* Base / 2 and r < b * Base: the quotient of the top limbs of r by the top
\* limb of b is that d or up to 2 more (Knuth, TAOCP 4.3.1, algorithm D).
QuotientFrom(r, b, qhat) ==
  IF BCmp(BMulSmall(b, qhat), r) <= 0 THEN qhat
  ELSE IF BCmp(BMulSmall(b, qhat - 1), r) <= 0 THEN qhat - 1
  ELSE qhat - 2

QuotientDigit(r, b) ==
  QuotientFrom(r, b,
               Min((Limb(r, Len(b) + 1) * Base + Limb(r, Len(b))) \div b[Len(b)],
                   Base - 1))

RECURSIVE BDivModFrom(_, _, _, _)
\* The quotient of the lower limbs with the digit d put on top.
BDivModPush(rest, d) == [q |-> rest.q \o <<d>>, r |-> rest.r]

\* Limb i gave the digit d of the running remainder cur: go on below it.
BDivModDigit(a, b, i, cur, d) ==
  BDivModPush(BDivModFrom(a, b, i - 1, BSub(cur, BMulSmall(b, d))), d)

BDivModLimb(a, b, i, cur) == BDivModDigit(a, b, i, cur, QuotientDigit(cur, b))

\* Long division from limb i down; rem is the remainder of the limbs above.
BDivModFrom(a, b, i, rem) ==
  IF i = 0 THEN [q |-> << >>, r |-> rem]
  ELSE BDivModLimb(a, b, i, BNorm(<<a[i]>> \o rem))

\* The shift that brings the top limb of b to at least Base / 2.
TopShift(b) == LimbBits - IntBitLen(b[Len(b)])

\* The quotient and remainder of a * 2^sh by b * 2^sh, for a by b.
BDivUnshift(d, sh) == [q |-> BNorm(d.q), r |-> BShr(d.r, sh)]

BDivModShifted(a, b, sh) == BDivUnshift(BDivModFrom(a, b, Len(a), << >>), sh)

\* Quotient and remainder of a by b, b > 0 (long division, a limb at a time).
BDivMod(a, b) == BDivModShifted(BShl(a, TopShift(b)), BShl(b, TopShift(b)), TopShift(b))

(***************************************************************************)
(* binary64 floats.  MantBits is the precision of a Python float.          *)
(***************************************************************************)
MantBits == 53

FZero == [sgn |-> 1, m |-> << >>, e |-> 0]

IsZero(x) == x.m = << >>

\* The rounded mantissa q1 may have MantBits + 1 bits (a carry out of the top).
FNormal(sgn, q1, e) ==
  IF BBitLen(q1) > MantBits
  THEN [sgn |-> sgn, m |-> BShr(q1, 1), e |-> e + 1]
  ELSE [sgn |-> sgn, m |-> q1, e |-> e]

\* q is the kept part; c compares the dropped part with half a unit of q.
FRoundUp(sgn, q, e, c, sticky) ==
  FNormal(sgn,
          IF c > 0 \/ (c = 0 /\ (sticky \/ BBit(q, 0) = 1)) THEN BAdd(q, <<1>>) ELSE q,
          e)

\* n has sh bits too many and q is n without them.
FRoundCut(sgn, n, e, sticky, sh, q) ==
  FRoundUp(sgn, q, e + sh, BCmp(BSub(n, BShl(q, sh)), BShl(<<1>>, sh - 1)), sticky)

\* len is the number of bits of n.
FRoundLen(sgn, n, e, sticky, len) ==
  IF len = 0 THEN FZero
  ELSE IF len <= MantBits
  THEN [sgn |-> sgn, m |-> BShl(n, MantBits - len), e |-> e - (MantBits - len)]
  ELSE FRoundCut(sgn, n, e, sticky, len - MantBits, BShr(n, len - MantBits))

\* The float nearest to sgn * (n + t) * 2^e, where n is a natural and t is a
\* discarded tail with 0 <= t < 1 that is nonzero exactly when sticky: round to
\* nearest, ties to even.  With sticky, n must have more than MantBits bits.
FRound(sgn, n, e, sticky) == FRoundLen(sgn, n, e, sticky, BBitLen(n))

Abs(n) == IF n < 0 THEN -n ELSE n

Sign(n) == IF n < 0 THEN -1 ELSE 1

\* float(n) for an integer n.
FFromInt(n) == FRound(Sign(n), BFromInt(Abs(n)), 0, FALSE)

\* The float n * 2^e, for writing down inputs such as 10.5 = 21 * 2^-1.
FDyadic(n, e) == FRound(Sign(n), BFromInt(Abs(n)), e, FALSE)

FNeg(x) == IF IsZero(x) THEN x ELSE [x EXCEPT !.sgn = -x.sgn]

\* x * y
FMul(x, y) == FRound(x.sgn * y.sgn, BMul(x.m, y.m), x.e + y.e, FALSE)

\* The float nearest to sgn * (d.q + d.r / divisor) * 2^e.
FRoundQuotient(sgn, d, e) == FRound(sgn, d.q, e, d.r # << >>)

\* x / y for y # 0: MantBits + 4 extra quotient bits, the remainder is the
\* sticky tail.
FDiv(x, y) ==
  IF IsZero(x) THEN FZero
  ELSE FRoundQuotient(x.sgn * y.sgn, BDivMod(BShl(x.m, MantBits + 4), y.m),
                      x.e - y.e - (MantBits + 4))

\* The exponent both mantissas are brought to.
SumExp(x, y) ==
  IF IsZero(x) THEN y.e ELSE IF IsZero(y) THEN x.e ELSE Min(x.e, y.e)

\* The mantissa of x at the exponent e <= x.e.
Aligned(x, e) == BShl(x.m, IF IsZero(x) THEN 0 ELSE x.e - e)

\* sx * mx + sy * my, at the exponent e.
SignedSum(sx, mx, sy, my, e) ==
  IF sx = sy THEN [sgn |-> sx, n |-> BAdd(mx, my), e |-> e]
  ELSE IF BCmp(mx, my) >= 0 THEN [sgn |-> sx, n |-> BSub(mx, my), e |-> e]
  ELSE [sgn |-> sy, n |-> BSub(my, mx), e |-> e]

ExactSumAt(x, y, e) == SignedSum(x.sgn, Aligned(x, e), y.sgn, Aligned(y, e), e)

\* The exact sum x + y as [sgn, n, e] of value sgn * n * 2^e.
ExactSum(x, y) == ExactSumAt(x, y, SumExp(x, y))

FRoundSum(s) == FRound(s.sgn, s.n, s.e, FALSE)

\* x + y
FAdd(x, y) == FRoundSum(ExactSum(x, y))

\* x - y
FSub(x, y) == FAdd(x, FNeg(y))

\* The sign of an exact sum: -1, 0 or 1.
SumSign(s) == IF s.n = << >> THEN 0 ELSE s.sgn

\* -1, 0 or 1 as x < y, x = y, x > y.
FCmp(x, y) == SumSign(ExactSum(x, FNeg(y)))

FLt(x, y) == FCmp(x, y) < 0

FLe(x, y) == FCmp(x, y) <= 0

\* n is the mantissa of x without its -x.e fraction bits.
FIntCut(x, n) == [n |-> n, frac |-> BShl(n, -x.e) # x.m]

\* The integer part of |x| and whether a fraction was dropped.
FIntPart(x) ==
  IF IsZero(x) THEN [n |-> << >>, frac |-> FALSE]
  ELSE IF x.e >= 0 THEN [n |-> BShl(x.m, x.e), frac |-> FALSE]
  ELSE FIntCut(x, BShr(x.m, -x.e))

\* int(x): truncation toward zero.
FTruncToInt(x) == x.sgn * BToInt(FIntPart(x).n)

\* floor of sgn * (q + t), t in [0, 1) and nonzero exactly when inexact.
FloorOf(sgn, q, inexact) ==
  IF sgn > 0 THEN q ELSE IF inexact THEN -(q + 1) ELSE -q

FloorDivRem(sgn, frac, d) == FloorOf(sgn, BToInt(d.q), d.r # 0 \/ frac)

FloorDivParts(sgn, ip, k) == FloorDivRem(sgn, ip.frac, BDivSmall(ip.n, k))

\* int(x // k) for a float x and an integer k with 0 < k <= Base: float floor
\* division gives floor(x / k) exactly for |x| < 2^53 (fmod is exact, x - mod
\* is an integer multiple of k, and the sign adjustment subtracts 1 for a
\* negative x with a remainder).
FFloorDivToInt(x, k) == FloorDivParts(x.sgn, FIntPart(x), k)

(***************************************************************************)
(* Python values.  A str is a sequence of one-character strings.  None and *)
(* a float NaN are records of the float shape that are no finite float.    *)
(***************************************************************************)
PyNone == [sgn |-> 0, m |-> << >>, e |-> 0]

NaN == [sgn |-> 0, m |-> << >>, e |-> 1]

IsFinite(x) == x.sgn # 0

\* An optional str: a dictionary lookup that may give None.
Some(t) == [has |-> TRUE, v |-> t]

NoText == [has |-> FALSE, v |-> << >>]

\* Python's truth value of a str or None.
Truthy(o) == o.has /\ o.v # << >>

\* a or b
Or(a, b) == IF Truthy(a) THEN a ELSE b

RECURSIVE LStrip(_)
LStrip(t) == IF t # << >> /\ Head(t) = " " THEN LStrip(Tail(t)) ELSE t

RECURSIVE RStrip(_)
RStrip(t) ==
  IF t # << >> /\ t[Len(t)] = " " THEN RStrip(SubSeq(t, 1, Len(t) - 1)) ELSE t

\* str.strip()
Strip(t) == RStrip(LStrip(t))

\* str.startswith(c) for a one-character c
StartsWith(t, c) == t # << >> /\ t[1] = c

Digits == <<"0", "1", "2", "3", "4", "5", "6", "7", "8", "9">>

IsDigit(c) == \E i \in 1..10 : Digits[i] = c

DigitValue(c) == (CHOOSE i \in 1..10 : Digits[i] = c) - 1

AllDigits(t) == \A i \in 1..Len(t) : IsDigit(t[i])

RECURSIVE DigitsValue(_)
DigitsValue(t) ==
  IF t = << >> THEN 0 ELSE DigitsValue(SubSeq(t, 1, Len(t) - 1)) * 10 + DigitValue(t[Len(t)])

\* The float nearest to the decimal whole.frac.
Decimal(whole, frac) ==
  FDiv(FFromInt(DigitsValue(whole \o frac)), FFromInt(10 ^ Len(frac)))

\* The digits before and after the point; onepoint: at most one point.
ParseDigits(neg, whole, frac, onepoint) ==
  IF onepoint /\ AllDigits(whole) /\ AllDigits(frac) /\ Len(whole) + Len(frac) > 0
  THEN [ok |-> TRUE, val |-> IF neg THEN FNeg(Decimal(whole, frac)) ELSE Decimal(whole, frac)]
  ELSE [ok |-> FALSE, val |-> FZero]

\* point is where the point is, or past the end of a body without one.
ParseAt(neg, body, point, onepoint) ==
  ParseDigits(neg, SubSeq(body, 1, point - 1), SubSeq(body, point + 1, Len(body)), onepoint)

\* dots is where the points of the body are.
ParseBody(neg, body, dots) ==
  ParseAt(neg, body, IF dots = {} THEN Len(body) + 1 ELSE CHOOSE i \in dots : TRUE,
          Cardinality(dots) <= 1)

\* The body is the text after the sign.
ParseUnsigned(neg, body) == ParseBody(neg, body, {i \in 1..Len(body) : body[i] = "."})

ParseStripped(s) ==
  ParseUnsigned(StartsWith(s, "-"),
                IF StartsWith(s, "-") \/ StartsWith(s, "+") THEN Tail(s) ELSE s)

\* float(t) for a str t of the shape [ws][+-]digits[.digits][ws] (or with the
\* digits on one side of the point only); any other str raises ValueError.  The
\* value is the float nearest to the decimal.
ParseFloat(t) == ParseStripped(Strip(t))

(***************************************************************************)
(* csv.reader and csv.DictReader (default dialect, no quote characters in  *)
(* the modelled files).  A file is a sequence of lines without their line  *)
(* ends.                                                                   *)
(***************************************************************************)
RECURSIVE CsvSplit(_, _)
CsvSplit(rest, cur) ==
  IF rest = << >> THEN <<cur>>
  ELSE IF Head(rest) = "," THEN <<cur>> \o CsvSplit(Tail(rest), << >>)
  ELSE CsvSplit(Tail(rest), Append(cur, Head(rest)))

\* The row csv.reader makes of one line: an empty line is the empty row.
CsvRow(line) == IF line = << >> THEN << >> ELSE CsvSplit(line, << >>)

\* "W" stands for a run of characters longer than csv.field_size_limit():
\* csv.reader raises csv.Error on a line that holds one.
Wide == "W"

CsvRaises(line) == \E i \in 1..Len(line) : line[i] = Wide

\* The value zip() pairs with the fieldname at index i.
RowValue(row, i) ==
  IF i <= Len(row) THEN [absent |-> FALSE, val |-> Some(row[i])]
  ELSE [absent |-> FALSE, val |-> NoText]

\* at is where the key is among the fieldnames.
RowGetAt(row, at) ==
  IF at = {} THEN [absent |-> TRUE, val |-> NoText]
  ELSE RowValue(row, CHOOSE j \in at : \A k \in at : k <= j)

\* row.get(key) on the dict DictReader makes of a row: dict(zip(fieldnames,
\* row)), the fieldnames beyond a short row set to None (restval).  The last
\* occurrence of a repeated fieldname wins.  absent: the key is no fieldname.
RowGet(fieldnames, row, key) ==
  RowGetAt(row, {i \in 1..Len(fieldnames) : fieldnames[i] = key})

\* row.get(key) with the default None.
RowGetOrNone(fieldnames, row, key) == RowGet(fieldnames, row, key).val

\* The column names the readers look for.
STOCK_CODE == <<"s", "t", "o", "c", "k", "_", "c", "o", "d", "e">>

INSTRUMENT == <<"i", "n", "s", "t", "r", "u", "m", "e", "n", "t">>

CODE == <<"c", "o", "d", "e">>

QUANTITY == <<"q", "u", "a", "n", "t", "i", "t", "y">>

COST_PRICE == <<"c", "o", "s", "t", "_", "p", "r", "i", "c", "e">>

CURRENT_PRICE == <<"c", "u", "r", "r", "e", "n", "t", "_", "p", "r", "i", "c", "e">>

(***************************************************************************)
(* read_selection_result.  A file is [readable, lines]; readable is FALSE  *)
(* when open() or the decoding of the file raises.  The result is          *)
(* [exited, stocks]: exited means sys.exit(1).                             *)
(***************************************************************************)
\* if stock: stocks.append(stock.strip())
AppendStock(stocks, stock) ==
  IF Truthy(stock) THEN Append(stocks, Strip(stock.v)) ELSE stocks

\* One pass of the for loop; DictReader skips a row without fields.
SelectionCsvRow(fieldnames, row, stocks) ==
  IF row = << >> THEN stocks
  ELSE AppendStock(stocks, Or(Or(RowGetOrNone(fieldnames, row, STOCK_CODE),
                                 RowGetOrNone(fieldnames, row, INSTRUMENT)),
                              RowGetOrNone(fieldnames, row, CODE)))

RECURSIVE SelectionCsvRows(_, _, _, _)
\* The for loop over the DictReader from line i on: [raised, stocks].
SelectionCsvRows(lines, fieldnames, i, stocks) ==
  IF i > Len(lines) THEN [raised |-> FALSE, stocks |-> stocks]
  ELSE IF CsvRaises(lines[i]) THEN [raised |-> TRUE, stocks |-> stocks]
  ELSE SelectionCsvRows(lines, fieldnames, i + 1,
                        SelectionCsvRow(fieldnames, CsvRow(lines[i]), stocks))

\* The inner try: the first line is the header (DictReader.fieldnames).
SelectionCsv(lines) ==
  IF lines = << >> THEN [raised |-> FALSE, stocks |-> << >>]
  ELSE IF CsvRaises(lines[1]) THEN [raised |-> TRUE, stocks |-> << >>]
  ELSE SelectionCsvRows(lines, CsvRow(lines[1]), 2, << >>)

RECURSIVE SelectionTextLines(_, _, _)
\* The except branch: f.seek(0), then one stock per line; stocks keeps what
\* the csv attempt had appended.
SelectionTextLines(lines, i, stocks) ==
  IF i > Len(lines) THEN stocks
  ELSE LET line == Strip(lines[i])
       IN  SelectionTextLines(lines, i + 1,
             IF line # << >> /\ ~StartsWith(line, "#")
             THEN Append(stocks, line) ELSE stocks)

\* csv is what the inner try did: the bare except takes the file as text.
SelectionOf(lines, csv) ==
  IF csv.raised
  THEN [exited |-> FALSE, stocks |-> SelectionTextLines(lines, 1, csv.stocks)]
  ELSE [exited |-> FALSE, stocks |-> csv.stocks]

read_selection_result(file) ==
  IF ~file.readable THEN [exited |-> TRUE, stocks |-> << >>]
  ELSE SelectionOf(file.lines, SelectionCsv(file.lines))

(***************************************************************************)
(* Insertion-ordered dicts: sequences of entries with distinct stock       *)
(* fields.  A Python dict keeps a key where it was first inserted.         *)
(***************************************************************************)
Keys(d) == {d[i].stock : i \in 1..Len(d)}

HasKey(d, k) == \E i \in 1..Len(d) : d[i].stock = k

Entry(d, k) == d[CHOOSE i \in 1..Len(d) : d[i].stock = k]

\* d[entry.stock] = entry
DictSet(d, entry) ==
  IF HasKey(d, entry.stock)
  THEN [i \in 1..Len(d) |-> IF d[i].stock = entry.stock THEN entry ELSE d[i]]
  ELSE Append(d, entry)

(***************************************************************************)
(* read_current_positions: [exited, positions].                            *)
(***************************************************************************)
\* float(got) for what row.get(key, 0) gave.
FloatOf(got) ==
  IF got.absent THEN [ok |-> TRUE, val |-> FZero]
  ELSE IF ~got.val.has THEN [ok |-> FALSE, val |-> FZero]
  ELSE ParseFloat(got.val.v)

\* float(row.get(key, 0)): [ok, val]; a None (short row) raises TypeError, a
\* str that is no number raises ValueError.
FloatField(fieldnames, row, key) == FloatOf(RowGet(fieldnames, row, key))

\* positions[stock_code.strip()] = {...}, or the exception of a float().
PositionFields(positions, stock, qty, cost, cur) ==
  IF ~(qty.ok /\ cost.ok /\ cur.ok) THEN [exited |-> TRUE, positions |-> << >>]
  ELSE [exited    |-> FALSE,
        positions |-> DictSet(positions,
                              [stock         |-> Strip(stock.v),
                               quantity      |-> FTruncToInt(qty.val),
                               cost_price    |-> cost.val,
                               current_price |-> cur.val])]

\* if stock_code: ...
PositionStock(fieldnames, row, positions, stock) ==
  IF ~Truthy(stock) THEN [exited |-> FALSE, positions |-> positions]
  ELSE PositionFields(positions, stock,
                      FloatField(fieldnames, row, QUANTITY),
                      FloatField(fieldnames, row, COST_PRICE),
                      FloatField(fieldnames, row, CURRENT_PRICE))

\* One pass of the for loop; DictReader skips a row without fields.
PositionRow(fieldnames, row, positions) ==
  IF row = << >> THEN [exited |-> FALSE, positions |-> positions]
  ELSE PositionStock(fieldnames, row, positions,
                     Or(RowGetOrNone(fieldnames, row, STOCK_CODE),
                        RowGetOrNone(fieldnames, row, CODE)))

RECURSIVE PositionRows(_, _, _, _)
\* After the pass over line i: the next line, unless the pass raised.
PositionNext(lines, fieldnames, i, done) ==
  IF done.exited THEN done ELSE PositionRows(lines, fieldnames, i + 1, done.positions)

\* The for loop over the DictReader from line i on; an exception ends it.
PositionRows(lines, fieldnames, i, positions) ==
  IF i > Len(lines) THEN [exited |-> FALSE, positions |-> positions]
  ELSE IF CsvRaises(lines[i]) THEN [exited |-> TRUE, positions |-> << >>]
  ELSE PositionNext(lines, fieldnames, i,
                    PositionRow(fieldnames, CsvRow(lines[i]), positions))

read_current_positions(file) ==
  IF ~file.readable THEN [exited |-> TRUE, positions |-> << >>]
  ELSE IF file.lines = << >> THEN [exited |-> FALSE, positions |-> << >>]
  ELSE IF CsvRaises(file.lines[1]) THEN [exited |-> TRUE, positions |-> << >>]
  ELSE PositionRows(file.lines, CsvRow(file.lines[1]), 2, << >>)

(***************************************************************************)
(* get_stock_prices.  The market is the data provider: for each known      *)
(* instrument what D.features does, [data, close] with data "row" (a row   *)
(* with that close, which may be NaN or <= 0), "empty" (no row) or "error" *)
(* (it raises).  An instrument the provider does not know gives no row.    *)
(***************************************************************************)
Lookup(market, stock) ==
  IF stock \in DOMAIN market THEN market[stock] ELSE [data |-> "empty", close |-> FZero]

\* One pass of the loop body: the price stored for a stock.
ResolvePrice(market, stock) ==
  IF Lookup(market, stock).data = "row" THEN Lookup(market, stock).close ELSE PyNone

\* prices is keyed by the stocks asked for; the order of the lookups does not
\* change it.
get_stock_prices(stocks, market) == [s \in stocks |-> ResolvePrice(market, s)]

\* AllStocks without the holdings: the selection alone.
AllStocksOfSelection(stocks, positions) == {stocks[i] : i \in 1..Len(stocks)}

\* set(target_stocks + list(current_positions.keys()))
AllStocks(stocks, positions) == {stocks[i] : i \in 1..Len(stocks)} \cup Keys(positions)

RECURSIVE Listed(_)
\* list(S) of a set S: its members, each once, in an order that the set
\* decides; neither the prices nor the number of lookups depend on the order.
Listed(S) ==
  IF S = {} THEN << >>
  ELSE LET x == CHOOSE y \in S : TRUE IN <<x>> \o Listed(S \ {x})

\* The calls of D.features that the for loop of get_stock_prices makes: how
\* many for each stock of the list.
Lookups(stocks) ==
  [s \in {stocks[i] : i \in 1..Len(stocks)} |->
     Cardinality({i \in 1..Len(stocks) : stocks[i] = s})]

(***************************************************************************)
(* calculate_target_positions: [raised, positions]; raised is the          *)
(* ValueError of int() on a NaN.                                           *)
(***************************************************************************)
LOT == 100

\* prices.get(stock)
PriceGet(prices, stock) == IF stock \in DOMAIN prices THEN prices[stock] ELSE PyNone

\* price is None or price <= 0 (a comparison with NaN is False)
PriceInvalid(price) == price = PyNone \/ (IsFinite(price) /\ FLe(price, FZero))

\* weight = 1.0 / n_stocks
Weight(n_stocks) == FDiv(FFromInt(1), FFromInt(n_stocks))

\* target_amount = total_assets * weight
TargetAmount(total_assets, weight) == FMul(total_assets, weight)

\* target_qty = int((target_amount / price) // 100) * 100
TargetQty(target_amount, price) == FFloorDivToInt(FDiv(target_amount, price), LOT) * LOT

\* actual_amount = target_qty * price
ActualAmount(target_qty, price) == FMul(FFromInt(target_qty), price)

\* target_positions[stock] = {...}
TargetSized(stock, weight, target_amount, target_qty, price) ==
  [stock         |-> stock,
   weight        |-> weight,
   target_amount |-> target_amount,
   target_qty    |-> target_qty,
   actual_amount |-> ActualAmount(target_qty, price),
   price         |-> price]

TargetEntry(stock, weight, target_amount, price) ==
  TargetSized(stock, weight, target_amount, TargetQty(target_amount, price), price)

\* The k-th smallest member of a set of naturals.
Nth(S, k) == CHOOSE i \in S : Cardinality({j \in S : j < i}) = k - 1

\* The entries of d, in order, whose index is in keep.
Select(d, keep) == [k \in 1..Cardinality(keep) |-> d[Nth(keep, k)]]

\* The passes of the for loop that get beyond the price check.
Priced(stocks, prices) ==
  {i \in 1..Len(stocks) : ~PriceInvalid(PriceGet(prices, stocks[i]))}

\* Inserting with a new entry for every pass, a repeated stock included.
InsertingEvery(stocks, priced) == priced

\* The passes that insert a new key: target_positions[stock] = {...} puts a
\* stock where its first priced occurrence is, and a later occurrence stores
\* an equal entry (same weight, target_amount and price) in that place.
Inserting(stocks, priced) ==
  {i \in priced : \A j \in priced : j < i => stocks[j] # stocks[i]}

\* The entries of the stocks kept, in the order of their insertion.
TargetEntries(kept, prices, weight, target_amount) ==
  [k \in 1..Len(kept) |->
     TargetEntry(kept[k], weight, target_amount, PriceGet(prices, kept[k]))]

\* The dict the for loop builds, unless int() raises on a NaN; priced is the
\* set of the passes that get beyond the price check.
TargetPriced(stocks, prices, weight, target_amount, priced) ==
  IF \E i \in priced : PriceGet(prices, stocks[i]) = NaN
  THEN [raised |-> TRUE, positions |-> << >>]
  ELSE [raised    |-> FALSE,
        positions |-> TargetEntries(Select(stocks, Inserting(stocks, priced)),
                                    prices, weight, target_amount)]

TargetLoop(stocks, prices, weight, target_amount) ==
  TargetPriced(stocks, prices, weight, target_amount, Priced(stocks, prices))

\* The weight is computed once, before the loop.
TargetWeighted(total_assets, stocks, prices, weight) ==
  TargetLoop(stocks, prices, weight, TargetAmount(total_assets, weight))

\* calculate_target_positions without the guard of n_stocks == 0: the
\* division 1.0 / 0 raises ZeroDivisionError.
calculate_target_positionsUnguarded(total_assets, stocks, prices) ==
  IF Len(stocks) = 0 THEN [raised |-> TRUE, positions |-> << >>]
  ELSE TargetWeighted(total_assets, stocks, prices, Weight(Len(stocks)))

calculate_target_positions(total_assets, stocks, prices) ==
  IF Len(stocks) = 0 THEN [raised |-> FALSE, positions |-> << >>]
  ELSE TargetWeighted(total_assets, stocks, prices, Weight(Len(stocks)))

(***************************************************************************)
(* calculate_rebalancing.  The actions are '买入' (BUY), '卖出' (SELL) and  *)
(* '无需操作' (HOLD).                                                      *)
(***************************************************************************)
BUY == "buy"

SELL == "sell"

HOLD == "hold"

\* current_positions.get(stock, {'quantity': 0})['quantity']
CurrentQty(current_positions, stock) ==
  IF HasKey(current_positions, stock) THEN Entry(current_positions, stock).quantity ELSE 0

\* ActionOf with the comparison slipped: a diff of 0 is a buy.
ActionOfNoHold(diff) == IF diff >= 0 THEN BUY ELSE SELL

\* '买入' if diff > 0 else '卖出' if diff < 0 else '无需操作'
ActionOf(diff) == IF diff > 0 THEN BUY ELSE IF diff < 0 THEN SELL ELSE HOLD

\* The entry of a stock of the target positions.
TargetDiff(target, current_qty, diff) ==
  [stock       |-> target.stock,
   target_qty  |-> target.target_qty,
   current_qty |-> current_qty,
   diff        |-> diff,
   action      |-> ActionOf(diff),
   action_qty  |-> IF diff # 0 THEN Abs(diff) ELSE 0,
   price       |-> target.price]

\* diff = target_qty - current_qty
TargetHeld(target, current_qty) ==
  TargetDiff(target, current_qty, target.target_qty - current_qty)

TargetAction(target, current_positions) ==
  TargetHeld(target, CurrentQty(current_positions, target.stock))

\* ClearAction with the wrong price column: the cost instead of the current
\* price.
ClearActionAtCost(current) ==
  [stock       |-> current.stock,
   target_qty  |-> 0,
   current_qty |-> current.quantity,
   diff        |-> -current.quantity,
   action      |-> SELL,
   action_qty  |-> current.quantity,
   price       |-> current.cost_price]

\* The entry of a held stock that is not in the target positions.
ClearAction(current) ==
  [stock       |-> current.stock,
   target_qty  |-> 0,
   current_qty |-> current.quantity,
   diff        |-> -current.quantity,
   action      |-> SELL,
   action_qty  |-> current.quantity,
   price       |-> current.current_price]

\* calculate_rebalancing without its loop over the holdings.
ClearActionsNone(held) == << >>

\* The second loop: the held stocks that are not in the target positions.
ClearActions(held) == [i \in 1..Len(held) |-> ClearAction(held[i])]

\* calculate_rebalancing with its two loops in the other order.
calculate_rebalancingHeldFirst(target_positions, current_positions) ==
  ClearActions(Select(current_positions,
                      {i \in 1..Len(current_positions) :
                         ~HasKey(target_positions, current_positions[i].stock)}))
  \o [i \in 1..Len(target_positions) |->
        TargetAction(target_positions[i], current_positions)]

calculate_rebalancing(target_positions, current_positions) ==
  [i \in 1..Len(target_positions) |->
     TargetAction(target_positions[i], current_positions)]
  \o ClearActions(Select(current_positions,
                         {i \in 1..Len(current_positions) :
                            ~HasKey(target_positions, current_positions[i].stock)}))

(***************************************************************************)
(* generate_trading_plan                                                   *)
(***************************************************************************)
\* Order with the signed diff for action_qty.
OrderOfDiff(info) ==
  [stock    |-> info.stock,
   quantity |-> info.diff,
   price    |-> info.price,
   amount   |-> FMul(FFromInt(info.diff), info.price)]

\* An entry of buy_list or sell_list.
Order(info) ==
  [stock    |-> info.stock,
   quantity |-> info.action_qty,
   price    |-> info.price,
   amount   |-> FMul(FFromInt(info.action_qty), info.price)]

NoAction(info) ==
  [stock |-> info.stock, target_qty |-> info.target_qty, current_qty |-> info.current_qty]

WithAction(rebalancing, action) ==
  Select(rebalancing, {i \in 1..Len(rebalancing) : rebalancing[i].action = action})

RECURSIVE SumAmounts(_)
\* sum(item['amount'] for item in items): from 0, left to right.
SumAmounts(items) ==
  IF items = << >> THEN FZero
  ELSE FAdd(SumAmounts(SubSeq(items, 1, Len(items) - 1)), items[Len(items)].amount)

\* AvailableCash with the two totals swapped.
AvailableCashSwapped(cash_balance, total_sell_amount, total_buy_amount) ==
  FSub(FAdd(cash_balance, total_buy_amount), total_sell_amount)

\* available_cash = cash_balance + total_sell_amount - total_buy_amount
AvailableCash(cash_balance, total_sell_amount, total_buy_amount) ==
  FSub(FAdd(cash_balance, total_sell_amount), total_buy_amount)

Orders(chosen) == [i \in 1..Len(chosen) |-> Order(chosen[i])]

NoActions(chosen) == [i \in 1..Len(chosen) |-> NoAction(chosen[i])]

BuyList(rebalancing) == Orders(WithAction(rebalancing, BUY))

SellList(rebalancing) == Orders(WithAction(rebalancing, SELL))

\* NoActionList with an if for the else: every instrument is listed.
NoActionListOfAll(rebalancing) == NoActions(rebalancing)

NoActionList(rebalancing) ==
  NoActions(Select(rebalancing,
                   {i \in 1..Len(rebalancing) : rebalancing[i].action \notin {BUY, SELL}}))

\* The plan of the three lists and the two totals.
PlanTotals(buy_list, sell_list, no_action_list, total_buy_amount, total_sell_amount, cash_balance) ==
  [buy_list          |-> buy_list,
   sell_list         |-> sell_list,
   no_action_list    |-> no_action_list,
   total_buy_amount  |-> total_buy_amount,
   total_sell_amount |-> total_sell_amount,
   available_cash    |-> AvailableCash(cash_balance, total_sell_amount, total_buy_amount),
   cash_balance      |-> cash_balance]

PlanLists(buy_list, sell_list, no_action_list, cash_balance) ==
  PlanTotals(buy_list, sell_list, no_action_list, SumAmounts(buy_list),
             SumAmounts(sell_list), cash_balance)

generate_trading_plan(rebalancing, cash_balance) ==
  PlanLists(BuyList(rebalancing), SellList(rebalancing), NoActionList(rebalancing),
            cash_balance)

(***************************************************************************)
(* print_trading_plan and save_trading_plan.  The report and the file hold *)
(* the rows with their values; the layout of the text (column widths, two  *)
(* decimals) is not modelled.                                              *)
(***************************************************************************)
\* "清仓" if quantity >= 1000 else "减仓"
SellRemark(quantity) == IF quantity >= 1000 THEN "clear" ELSE "reduce"

\* "新买入" if quantity >= 1000 else "加仓"
BuyRemark(quantity) == IF quantity >= 1000 THEN "new" ELSE "add"

SellRows(plan) ==
  [i \in 1..Len(plan.sell_list) |->
     [idx |-> i, item |-> plan.sell_list[i],
      remark |-> SellRemark(plan.sell_list[i].quantity)]]

BuyRows(plan) ==
  [i \in 1..Len(plan.buy_list) |->
     [idx |-> i, item |-> plan.buy_list[i],
      remark |-> BuyRemark(plan.buy_list[i].quantity)]]

CashCheck(plan) ==
  [cash_balance      |-> plan.cash_balance,
   total_sell_amount |-> plan.total_sell_amount,
   total_buy_amount  |-> plan.total_buy_amount,
   available_cash    |-> plan.available_cash]

\* FundsMessage with <= for <: the warning at an available cash of 0.
FundsMessageAtZero(plan) ==
  IF FLe(plan.available_cash, FZero) THEN "insufficient" ELSE "sufficient"

\* if plan['available_cash'] < 0: the warning and its three suggestions,
\* else the funds-sufficient line.
FundsMessage(plan) ==
  IF FLt(plan.available_cash, FZero) THEN "insufficient" ELSE "sufficient"

NoReport ==
  [printed |-> FALSE, sell_rows |-> << >>, buy_rows |-> << >>, hold_rows |-> << >>,
   cash_check |-> CashCheck([cash_balance |-> FZero, total_sell_amount |-> FZero,
                             total_buy_amount |-> FZero, available_cash |-> FZero]),
   funds |-> "none"]

print_trading_plan(plan) ==
  [printed    |-> TRUE,
   sell_rows  |-> SellRows(plan),
   buy_rows   |-> BuyRows(plan),
   hold_rows  |-> plan.no_action_list,
   cash_check |-> CashCheck(plan),
   funds      |-> FundsMessage(plan)]

\* What the disk does with the output file: "ok", "open_fails" (open()
\* raises, nothing is created) or "write_fails" (a write raises after open()
\* has created or truncated the file).
DiskOutcomes == {"ok", "open_fails", "write_fails"}

NoFile == [state |-> "absent", sell_rows |-> << >>, buy_rows |-> << >>]

\* The file after save_trading_plan; the except branch only prints.
save_trading_plan(plan, disk) ==
  IF disk = "ok"
  THEN [state |-> "complete", sell_rows |-> SellRows(plan), buy_rows |-> BuyRows(plan)]
  ELSE IF disk = "write_fails"
  THEN [state |-> "partial", sell_rows |-> << >>, buy_rows |-> << >>]
  ELSE NoFile

(***************************************************************************)
(* The inputs of the model.                                                *)
(***************************************************************************)
StockA == <<"A">>

StockB == <<"B">>

StockC == <<"C">>

RECURSIVE JoinLine(_)
\* The fields of a row joined by commas: one line of a csv file.
JoinLine(fields) ==
  IF Len(fields) = 1 THEN fields[1]
  ELSE JoinLine(SubSeq(fields, 1, Len(fields) - 1)) \o <<",">> \o fields[Len(fields)]

\* Sequences over S of length at most n.
SeqsUpTo(S, n) == UNION {[1..k -> S] : k \in 0..n}

MaxSelRows == 2

MaxPosRows == 1

\* Selection files of main's runs: a stock_code header and rows, or a file
\* that cannot be read.
SelectionFiles ==
  {[readable |-> TRUE, lines |-> <<STOCK_CODE>> \o rows] :
     rows \in SeqsUpTo({StockA, StockB}, MaxSelRows)}
  \cup {[readable |-> FALSE, lines |-> << >>]}

PositionHeader == JoinLine(<<STOCK_CODE, QUANTITY, COST_PRICE, CURRENT_PRICE>>)

\* A row of B whose quantity is no number.
BadQuantityLine == JoinLine(<<StockB, <<"x">>, <<"2">>, <<"2">>>>)

\* Rows of a positions file: A 500 @ 1, C 300 @ 10.5, C 0 @ 10.5, and the row
\* of B.
PositionLines ==
  {JoinLine(<<StockA, <<"5", "0", "0">>, <<"1">>, <<"1">>>>),
   JoinLine(<<StockC, <<"3", "0", "0">>, <<"1", "0">>, <<"1", "0", ".", "5">>>>),
   JoinLine(<<StockC, <<"0">>, <<"1", "0">>, <<"1", "0", ".", "5">>>>),
   BadQuantityLine}

PositionFiles ==
  {[readable |-> TRUE, lines |-> <<PositionHeader>> \o rows] :
     rows \in SeqsUpTo(PositionLines, MaxPosRows)}
  \cup {[readable |-> FALSE, lines |-> << >>]}

Quote(close) == [data |-> "row", close |-> close]

NoQuote(how) == [data |-> how, close |-> FZero]

\* What the data provider may answer for a stock on the trade date.
Quotes(stock) ==
  IF stock = StockA THEN {Quote(FFromInt(1)), NoQuote("empty"), Quote(NaN)}
  ELSE IF stock = StockB THEN {Quote(FFromInt(2)), Quote(FZero), NoQuote("error")}
  ELSE IF stock = StockC THEN {Quote(FDyadic(21, -1)), NoQuote("empty")}
  ELSE {NoQuote("empty"), NoQuote("error")}

Markets(stocks) ==
  {m \in [stocks -> UNION {Quotes(s) : s \in stocks}] : \A s \in stocks : m[s] \in Quotes(s)}

TotalAssets == {FFromInt(1000), FZero, FFromInt(-1000)}

CashBalances == {FZero, FFromInt(1000)}

(***************************************************************************)
(* main: one action per stage.                                             *)
(***************************************************************************)
VARIABLES pc, selection_file, positions_file, total_assets, cash_balance,
          target_stocks, current_positions, prices, target_positions,
          rebalancing, plan, report, output_file, disk, exit_status, lookups

vars == <<pc, selection_file, positions_file, total_assets, cash_balance,
          target_stocks, current_positions, prices, target_positions,
          rebalancing, plan, report, output_file, disk, exit_status, lookups>>

inputs == <<selection_file, positions_file, total_assets, cash_balance>>

\* What main has written: the report on the terminal, the output file.
written == <<report, output_file, disk>>

NoPlan == generate_trading_plan(<< >>, FZero)

\* exit_status of a process that has not ended; then it is 0 or 1.
Running == -1

\* main at the stage `at`, nothing printed or saved yet.  disk is what the
\* disk did with the output file, once save_trading_plan has run.
Start(at) ==
  /\ pc = at
  /\ exit_status = Running
  /\ report = NoReport
  /\ output_file = NoFile
  /\ disk = "unused"

Init ==
  /\ Start("read_selection")
  /\ selection_file \in SelectionFiles
  /\ positions_file \in PositionFiles
  /\ total_assets \in TotalAssets
  /\ cash_balance \in CashBalances
  /\ target_stocks = << >>
  /\ current_positions = << >>
  /\ prices = << >>
  /\ lookups = << >>
  /\ target_positions = << >>
  /\ rebalancing = << >>
  /\ plan = NoPlan

\* Abort with sys.exit(0) for sys.exit(1).
AbortWithSuccess(how) ==
  /\ pc' = how
  /\ exit_status' = 0

\* sys.exit(1), or an exception that nothing catches: the process ends with
\* status 1.
Abort(how) ==
  /\ pc' = how
  /\ exit_status' = 1

\* What main does with the result r of read_selection_result.
SelectionRead(r) ==
  IF r.exited
  THEN Abort("exited") /\ UNCHANGED target_stocks
  ELSE /\ target_stocks' = r.stocks
       /\ pc' = "read_positions"
       /\ UNCHANGED exit_status

\* What main does with the result r of read_current_positions.
PositionsRead(r) ==
  IF r.exited
  THEN Abort("exited") /\ UNCHANGED current_positions
  ELSE /\ current_positions' = r.positions
       /\ pc' = "get_prices"
       /\ UNCHANGED exit_status

\* The data provider answers in one of the ways it may for all_stocks.
PricesFetched(all_stocks) ==
  \E market \in Markets(all_stocks) : prices' = get_stock_prices(all_stocks, market)

\* What main does with the result r of calculate_target_positions.
TargetCalculated(r) ==
  IF r.raised
  THEN Abort("crashed") /\ UNCHANGED target_positions
  ELSE /\ target_positions' = r.positions
       /\ pc' = "calculate_rebalancing"
       /\ UNCHANGED exit_status

\* [1/6] target_stocks = read_selection_result(args.selection_file)
ReadSelection ==
  /\ pc = "read_selection"
  /\ SelectionRead(read_selection_result(selection_file))
  /\ UNCHANGED <<inputs, current_positions, prices, target_positions, rebalancing,
                 plan, written, lookups>>

\* [2/6] current_positions = read_current_positions(args.positions_file)
ReadPositions ==
  /\ pc = "read_positions"
  /\ PositionsRead(read_current_positions(positions_file))
  /\ UNCHANGED <<inputs, target_stocks, prices, target_positions, rebalancing,
                 plan, written, lookups>>

\* [3/6] prices = get_stock_prices(all_stocks, ...)
GetStockPrices ==
  /\ pc = "get_prices"
  /\ PricesFetched(AllStocks(target_stocks, current_positions))
  /\ lookups' = Lookups(Listed(AllStocks(target_stocks, current_positions)))
  /\ pc' = "calculate_target"
  /\ UNCHANGED <<inputs, target_stocks, current_positions, target_positions,
                 rebalancing, plan, written, exit_status>>

\* [4/6] target_positions = calculate_target_positions(...)
CalculateTargetPositions ==
  /\ pc = "calculate_target"
  /\ TargetCalculated(calculate_target_positions(total_assets, target_stocks, prices))
  /\ UNCHANGED <<inputs, target_stocks, current_positions, prices, rebalancing,
                 plan, written, lookups>>

\* [5/6] rebalancing = calculate_rebalancing(target_positions, current_positions)
CalculateRebalancing ==
  /\ pc = "calculate_rebalancing"
  /\ rebalancing' = calculate_rebalancing(target_positions, current_positions)
  /\ pc' = "generate_plan"
  /\ UNCHANGED <<inputs, target_stocks, current_positions, prices, target_positions,
                 plan, written, exit_status, lookups>>

\* [6/6] plan = generate_trading_plan(rebalancing, args.cash_balance)
GenerateTradingPlan ==
  /\ pc = "generate_plan"
  /\ plan' = generate_trading_plan(rebalancing, cash_balance)
  /\ pc' = "print_plan"
  /\ UNCHANGED <<inputs, target_stocks, current_positions, prices, target_positions,
                 rebalancing, written, exit_status, lookups>>

\* print_trading_plan(plan, args.trade_date)
PrintTradingPlan ==
  /\ pc = "print_plan"
  /\ report' = print_trading_plan(plan)
  /\ pc' = "save_plan"
  /\ UNCHANGED <<inputs, target_stocks, current_positions, prices, target_positions,
                 rebalancing, plan, output_file, disk, exit_status, lookups>>

\* SaveTradingPlan with a save_trading_plan that lets the exception through.
SaveTradingPlanRaising ==
  /\ pc = "save_plan"
  /\ disk' \in DiskOutcomes
  /\ output_file' = save_trading_plan(plan, disk')
  /\ IF disk' = "ok" THEN pc' = "finish" /\ UNCHANGED exit_status ELSE Abort("crashed")
  /\ UNCHANGED <<inputs, target_stocks, current_positions, prices, target_positions,
                 rebalancing, plan, report, lookups>>

\* save_trading_plan(plan, args.output, args.trade_date)
SaveTradingPlan ==
  /\ pc = "save_plan"
  /\ disk' \in DiskOutcomes
  /\ output_file' = save_trading_plan(plan, disk')
  /\ pc' = "finish"
  /\ UNCHANGED <<inputs, target_stocks, current_positions, prices, target_positions,
                 rebalancing, plan, report, exit_status, lookups>>

\* The completion message; main returns and the process ends with status 0.
Finish ==
  /\ pc = "finish"
  /\ pc' = "done"
  /\ exit_status' = 0
  /\ UNCHANGED <<inputs, target_stocks, current_positions, prices, target_positions,
                 rebalancing, plan, written, lookups>>

Next ==
  \/ ReadSelection
  \/ ReadPositions
  \/ GetStockPrices
  \/ CalculateTargetPositions
  \/ CalculateRebalancing
  \/ GenerateTradingPlan
  \/ PrintTradingPlan
  \/ SaveTradingPlan
  \/ Finish

Spec == Init /\ [][Next]_vars

(***************************************************************************)
(* calculate_target_positions on long lists: main at stage [4/6], after a  *)
(* selection file of n rows, an empty positions file and a data provider   *)
(* that quotes one price for every instrument but the first `unpriced`.    *)
(* The instruments are distinct, so each was looked up once.               *)
(***************************************************************************)
MaxStocks == 49

\* The k-th of the instruments S01, S02, ...
StockName(k) == <<"S", Digits[(k \div 10) + 1], Digits[(k % 10) + 1]>>

StockList(n) == [k \in 1..n |-> StockName(k)]

AllocAssets == {FFromInt(4900), FFromInt(1000000)}

AllocPrices == {FFromInt(1), FFromInt(100)}

\* What get_stock_prices gives for an instrument without a usable price:
\* None (no row, or an error) or a close that is not positive.
Unusable == {PyNone, FZero}

\* The prices of the first n instruments: the first `unpriced` of them bad.
UniformPrices(n, price, unpriced, bad) ==
  [s \in {StockName(k) : k \in 1..n} |->
     IF \E k \in 1..unpriced : s = StockName(k) THEN bad ELSE price]

PricesChosen(n) ==
  \E price \in AllocPrices, unpriced \in 0..1, bad \in Unusable :
    prices = UniformPrices(n, price, unpriced, IF unpriced = 0 THEN PyNone ELSE bad)

StocksChosen(n) ==
  /\ selection_file = [readable |-> TRUE, lines |-> <<STOCK_CODE>> \o StockList(n)]
  /\ target_stocks = StockList(n)
  /\ PricesChosen(n)

InitAlloc ==
  /\ Start("calculate_target")
  /\ positions_file = [readable |-> TRUE, lines |-> <<PositionHeader>>]
  /\ total_assets \in AllocAssets
  /\ cash_balance = FZero
  /\ \E n \in 1..MaxStocks : StocksChosen(n)
  /\ lookups = Lookups(target_stocks)
  /\ current_positions = << >>
  /\ target_positions = << >>
  /\ rebalancing = << >>
  /\ plan = NoPlan

SpecAlloc == InitAlloc /\ [][CalculateTargetPositions]_vars

(***************************************************************************)
(* read_selection_result on text files: main at stage [1/6] with a         *)
(* selection file of lines that name no csv column.                        *)
(***************************************************************************)
MaxTextLines == 3

\* Lines of a text file: an instrument, a comment, an empty line, and a line
\* too long for the csv module.
TextLines == {StockA, StockB, <<"#", "A">>, << >>, <<Wide>>}

TextFiles == {[readable |-> TRUE, lines |-> l] : l \in SeqsUpTo(TextLines, MaxTextLines)}

InitText ==
  /\ Start("read_selection")
  /\ selection_file \in TextFiles
  /\ positions_file = [readable |-> TRUE, lines |-> <<PositionHeader>>]
  /\ total_assets = FZero
  /\ cash_balance = FZero
  /\ target_stocks = << >>
  /\ current_positions = << >>
  /\ prices = << >>
  /\ lookups = << >>
  /\ target_positions = << >>
  /\ rebalancing = << >>
  /\ plan = NoPlan

SpecText == InitText /\ [][ReadSelection]_vars

(***************************************************************************)
(* calculate_rebalancing and generate_trading_plan on more holdings: main  *)
(* at stage [5/6], after a selection of A and B, a positions file of up to *)
(* MaxHeldRows rows, among them a short position and a stock D that is     *)
(* never selected, and a data provider that quotes every instrument.       *)
(***************************************************************************)
MaxHeldRows == 2

StockD == <<"D">>

\* Rows of the positions file: A 500 @ 1, B -200 @ 2, C 300 @ 10.5,
\* C 0 @ 10.5, D 100 @ 3.
HeldLines ==
  {JoinLine(<<StockA, <<"5", "0", "0">>, <<"1">>, <<"1">>>>),
   JoinLine(<<StockB, <<"-", "2", "0", "0">>, <<"2">>, <<"2">>>>),
   JoinLine(<<StockC, <<"3", "0", "0">>, <<"1", "0">>, <<"1", "0", ".", "5">>>>),
   JoinLine(<<StockC, <<"0">>, <<"1", "0">>, <<"1", "0", ".", "5">>>>),
   JoinLine(<<StockD, <<"1", "0", "0">>, <<"3">>, <<"3">>>>)}

HeldFiles ==
  {[readable |-> TRUE, lines |-> <<PositionHeader>> \o rows] :
     rows \in SeqsUpTo(HeldLines, MaxHeldRows)}

\* Selection files of A and B: none, one or both, in either order.
SelectedFiles ==
  {[readable |-> TRUE, lines |-> <<STOCK_CODE>> \o rows] :
     rows \in {<< >>, <<StockA>>, <<StockB>>, <<StockA, StockB>>, <<StockB, StockA>>}}

\* The close of every instrument on the trade date.
QuotedMarket(stocks) ==
  [s \in stocks |->
     IF s = StockA THEN Quote(FFromInt(1))
     ELSE IF s = StockB THEN Quote(FFromInt(2))
     ELSE IF s = StockC THEN Quote(FDyadic(21, -1))
     ELSE Quote(FFromInt(3))]

\* A market where every instrument closes at 0.17.
PennyMarket(stocks) == [s \in stocks |-> Quote(Decimal(<<"0">>, <<"1", "7">>))]

\* The quoted market, but for A, which has the given answer.
HaltedMarket(stocks, quote) ==
  [s \in stocks |-> IF s = StockA THEN quote ELSE QuotedMarket(stocks)[s]]

\* The market of a run: quoted, penny, A closing at 0 or A without a row.
MarketOf(stocks, market) ==
  CASE market = "quoted" -> QuotedMarket(stocks)
    [] market = "penny" -> PennyMarket(stocks)
    [] market = "zero" -> HaltedMarket(stocks, Quote(FZero))
    [] market = "empty" -> HaltedMarket(stocks, NoQuote("empty"))

\* The --total-assets of a run and the market it meets.
Budgets ==
  {[total_assets |-> FFromInt(1000), market |-> "quoted"],
   [total_assets |-> FFromInt(400), market |-> "quoted"],
   [total_assets |-> FZero, market |-> "quoted"],
   [total_assets |-> FFromInt(51), market |-> "penny"],
   [total_assets |-> FFromInt(1000), market |-> "zero"],
   [total_assets |-> FFromInt(1000), market |-> "empty"]}

\* Stages [1/6] to [4/6] have run on the two files.
StagesRun(all_stocks, market) ==
  /\ prices = get_stock_prices(all_stocks, MarketOf(all_stocks, market))
  /\ lookups = Lookups(Listed(all_stocks))
  /\ target_positions =
       calculate_target_positions(total_assets, target_stocks, prices).positions

InitRebal ==
  /\ Start("calculate_rebalancing")
  /\ selection_file \in SelectedFiles
  /\ positions_file \in HeldFiles
  /\ cash_balance = FFromInt(1000)
  /\ target_stocks = read_selection_result(selection_file).stocks
  /\ current_positions = read_current_positions(positions_file).positions
  /\ \E budget \in Budgets :
       /\ total_assets = budget.total_assets
       /\ StagesRun(AllStocks(target_stocks, current_positions), budget.market)
  /\ rebalancing = << >>
  /\ plan = NoPlan

SpecRebal == InitRebal /\ [][CalculateRebalancing \/ GenerateTradingPlan]_vars

(***************************************************************************)
(* read_current_positions on rows and headers that lack fields: main at    *)
(* stage [2/6] with a positions file of up to MaxReadRows rows.            *)
(***************************************************************************)
MaxReadRows == 2

\* The header without the two price columns.
QuantityHeader == JoinLine(<<STOCK_CODE, QUANTITY>>)

ReadHeaders ==
  {PositionHeader, QuantityHeader, JoinLine(<<CODE, QUANTITY, COST_PRICE, CURRENT_PRICE>>)}

\* The rows, with the stock, the truncated quantity and whether the row has
\* the two prices: A,12.7,1,1   B,-3.9,2,2   A,500   ,5,1,1
ReadRows ==
  {[line     |-> JoinLine(<<StockA, <<"1", "2", ".", "7">>, <<"1">>, <<"1">>>>),
    stock    |-> StockA, quantity |-> 12, priced |-> TRUE],
   [line     |-> JoinLine(<<StockB, <<"-", "3", ".", "9">>, <<"2">>, <<"2">>>>),
    stock    |-> StockB, quantity |-> -3, priced |-> TRUE],
   [line     |-> JoinLine(<<StockA, <<"5", "0", "0">>>>),
    stock    |-> StockA, quantity |-> 500, priced |-> FALSE],
   [line     |-> JoinLine(<<<< >>, <<"5">>, <<"1">>, <<"1">>>>),
    stock    |-> << >>, quantity |-> 5, priced |-> TRUE]}

ReadFiles ==
  {[readable |-> TRUE, lines |-> <<header>> \o rows] :
     header \in ReadHeaders, rows \in SeqsUpTo({r.line : r \in ReadRows}, MaxReadRows)}

InitRead ==
  /\ Start("read_positions")
  /\ selection_file = [readable |-> TRUE, lines |-> <<STOCK_CODE>>]
  /\ positions_file \in ReadFiles
  /\ total_assets = FZero
  /\ cash_balance = FZero
  /\ target_stocks = << >>
  /\ current_positions = << >>
  /\ prices = << >>
  /\ lookups = << >>
  /\ target_positions = << >>
  /\ rebalancing = << >>
  /\ plan = NoPlan

SpecRead == InitRead /\ [][ReadPositions]_vars

(***************************************************************************)
(* The properties.  The stages a run has behind it:                        *)
(***************************************************************************)
Allocated ==
  pc \in {"calculate_rebalancing", "generate_plan", "print_plan", "save_plan",
          "finish", "done"}

Rebalanced == pc \in {"generate_plan", "print_plan", "save_plan", "finish", "done"}

PlanBuilt == pc \in {"print_plan", "save_plan", "finish", "done"}

Requested == {target_stocks[i] : i \in 1..Len(target_stocks)}

\* x is a whole number.
Whole(x) == IsFinite(x) /\ ~FIntPart(x).frac

\* floor(A / N / p / 100) * 100 for integers A, N > 0, p > 0.
FloorLots(A, N, p) == (A \div (N * p * 100)) * 100

RECURSIVE SumTo(_, _)
\* f[1] + ... + f[n]
SumTo(f, n) == IF n = 0 THEN 0 ELSE SumTo(f, n - 1) + f[n]

\* Every requested instrument has the price p, a positive whole number.
UniformlyPriced(p) ==
  /\ Whole(p) /\ FLt(FZero, p)
  /\ \A s \in Requested : s \in DOMAIN prices /\ prices[s] = p

\* C1: when every one of the N >= 1 requested instruments resolves to the same
\* positive price p, calculate_target_positions gives each of them target_qty =
\* floor(A / N / p / 100) * 100 for total_assets A, and the actual amounts
\* (target_qty * price) of the allocation sum to at most A.  (Stated for whole
\* A and p, where the floor is integer division.)
UniformAllocation ==
  \A p \in AllocPrices :
    (Allocated /\ target_stocks # << >> /\ Whole(total_assets) /\ UniformlyPriced(p)) =>
      /\ \A s \in Requested :
           /\ HasKey(target_positions, s)
           /\ Entry(target_positions, s).target_qty =
                FloorLots(FTruncToInt(total_assets), Len(target_stocks), FTruncToInt(p))
      /\ SumTo([i \in 1..Len(target_positions) |->
                  FTruncToInt(target_positions[i].actual_amount)],
               Len(target_positions)) <= FTruncToInt(total_assets)

\* C2: with total_assets zero or negative, every target quantity that
\* calculate_target_positions produces is 0.
NoAssetsNoTargets ==
  (Allocated /\ FLe(total_assets, FZero)) =>
    \A i \in 1..Len(target_positions) : target_positions[i].target_qty = 0

\* The stocks of a list of entries.
StocksOf(list) == {list[i].stock : i \in 1..Len(list)}

\* A stock that is held and is no key of the target allocation.
HeldOnly(i) == ~HasKey(target_positions, current_positions[i].stock)

\* C3: every instrument that is held and is no key of the target allocation
\* has a rebalance action with target_qty 0 and the holding's current_price,
\* and is in the plan's sell_list with the quantity it is held in, at that
\* price.
HeldOnlyIsSold ==
  \A i \in 1..Len(current_positions) :
    HeldOnly(i) =>
      /\ Rebalanced =>
           \E j \in 1..Len(rebalancing) :
             /\ rebalancing[j].stock = current_positions[i].stock
             /\ rebalancing[j].target_qty = 0
             /\ rebalancing[j].price = current_positions[i].current_price
      /\ PlanBuilt =>
           \E j \in 1..Len(plan.sell_list) :
             /\ plan.sell_list[j].stock = current_positions[i].stock
             /\ plan.sell_list[j].quantity = current_positions[i].quantity
             /\ plan.sell_list[j].price = current_positions[i].current_price

\* A run that ended with a holding of 300 that the target allocation lacks.
HeldOnlySold ==
  /\ pc = "done"
  /\ \E i \in 1..Len(current_positions) :
       /\ HeldOnly(i)
       /\ current_positions[i].quantity = 300
       /\ current_positions[i].stock \in StocksOf(plan.sell_list)

\* C4: an instrument of the rebalancing mapping whose diff is 0, held-only
\* instruments included, is in neither buy_list nor sell_list of the plan built
\* from that mapping, and is in its hold list.
ZeroDiffOnlyHeld ==
  PlanBuilt =>
    \A j \in 1..Len(rebalancing) :
      rebalancing[j].diff = 0 =>
        /\ rebalancing[j].stock \notin StocksOf(plan.buy_list)
        /\ rebalancing[j].stock \notin StocksOf(plan.sell_list)
        /\ rebalancing[j].stock \in StocksOf(plan.no_action_list)

\* The quantity a stock is held in, 0 for a stock that is not held.
HeldQty(stock) ==
  IF \E i \in 1..Len(current_positions) : current_positions[i].stock = stock
  THEN current_positions[CHOOSE i \in 1..Len(current_positions) :
                           current_positions[i].stock = stock].quantity
  ELSE 0

\* Buy for a positive diff, sell for a negative one, hold for 0.
Direction(action, diff) ==
  /\ diff > 0 => action = BUY
  /\ diff < 0 => action = SELL
  /\ diff = 0 => action = HOLD

\* C5: for every instrument of the target allocation, held or not,
\* calculate_rebalancing sets current_qty to the held quantity (0 when it is
\* not held), diff = target_qty - current_qty, and the action to buy for
\* diff > 0, sell for diff < 0, hold for diff = 0.
TargetDiffAction ==
  Rebalanced =>
    \A i \in 1..Len(target_positions) :
      \E j \in 1..Len(rebalancing) :
        /\ rebalancing[j].stock = target_positions[i].stock
        /\ rebalancing[j].current_qty = HeldQty(target_positions[i].stock)
        /\ rebalancing[j].diff =
             target_positions[i].target_qty - HeldQty(target_positions[i].stock)
        /\ Direction(rebalancing[j].action, rebalancing[j].diff)

\* A rebalancing with a held target instrument that needs no trade and a
\* target instrument that is not held and is to be bought.
TargetHoldAndBuy ==
  /\ Rebalanced
  /\ \E j \in 1..Len(rebalancing) :
       /\ rebalancing[j].stock \in StocksOf(target_positions)
       /\ rebalancing[j].stock \in StocksOf(current_positions)
       /\ rebalancing[j].action = HOLD
  /\ \E j \in 1..Len(rebalancing) :
       /\ rebalancing[j].stock \notin StocksOf(current_positions)
       /\ rebalancing[j].action = BUY

RECURSIVE SumFrom(_, _)
\* total + quantity * price of every order of the list, first order first.
SumFrom(total, orders) ==
  IF orders = << >> THEN total
  ELSE SumFrom(FAdd(total, FMul(FFromInt(orders[1].quantity), orders[1].price)),
               Tail(orders))

\* C6: the plan of generate_trading_plan has available_cash = cash_balance +
\* total_sell_amount - total_buy_amount, with total_buy_amount and
\* total_sell_amount the sums of quantity * price over buy_list and sell_list.
CashIdentity ==
  PlanBuilt =>
    /\ plan.total_buy_amount = SumFrom(FZero, plan.buy_list)
    /\ plan.total_sell_amount = SumFrom(FZero, plan.sell_list)
    /\ plan.available_cash =
         FSub(FAdd(cash_balance, plan.total_sell_amount), plan.total_buy_amount)

\* A finished run with cash, orders to buy and orders to sell, the two totals
\* different.
CashOfBuysAndSells ==
  /\ pc = "done"
  /\ plan.buy_list # << >>
  /\ plan.sell_list # << >>
  /\ ~IsZero(cash_balance)
  /\ plan.total_buy_amount # plan.total_sell_amount

\* The price mapping has no usable price for the stock: None, or not positive.
Unpriced(stock) == prices[stock] = PyNone \/ FLe(prices[stock], FZero)

\* C7: a requested instrument whose price is missing or <= 0 is no key of the
\* allocation, and every other requested instrument has weight 1/N and
\* target_amount = total_assets / N for the N instruments requested.
NominalShares ==
  (Allocated /\ \E u \in Requested : Unpriced(u)) =>
    \A s \in Requested :
      IF Unpriced(s) THEN ~HasKey(target_positions, s)
      ELSE /\ HasKey(target_positions, s)
           /\ Entry(target_positions, s).weight =
                FDiv(FFromInt(1), FFromInt(Len(target_stocks)))
           /\ Entry(target_positions, s).target_amount =
                FDiv(total_assets, FFromInt(Len(target_stocks)))

\* Prices were looked up, for one requested instrument at least, and every
\* lookup gave None.
NoPriceResolved ==
  /\ target_stocks # << >>
  /\ DOMAIN prices # {}
  /\ \A s \in DOMAIN prices : prices[s] = PyNone

\* C8: when no price resolves, the run is not aborted and the plan it builds
\* has no buy entry and no sell entry, whatever is held.
NoPriceEmptyPlan ==
  NoPriceResolved =>
    /\ pc \notin {"exited", "crashed"}
    /\ PlanBuilt => (plan.buy_list = << >> /\ plan.sell_list = << >>)

\* A line of a text file that names an instrument: not empty after strip(),
\* no comment.
Instrument(line) == line # << >> /\ line # <<" ">> /\ Head(line) # "#"

\* C9: from a text file with one instrument per line and no csv header,
\* read_selection_result returns the lines that are not empty and do not
\* start with '#', in file order.
TextLinesRead ==
  pc # "read_selection" =>
    /\ pc = "read_positions"
    /\ target_stocks = SelectSeq(selection_file.lines, Instrument)

\* The plan leaves less cash than nothing.
CashShort == FLt(plan.available_cash, FZero)

\* C10: the report shows the insufficient-funds warning exactly when
\* available_cash < 0 and the funds-sufficient message otherwise; a run with
\* negative available_cash is not aborted, prints its report, writes the
\* complete output file when the disk takes it, and ends with status 0.
ShortOfCashWarned ==
  /\ report.printed =>
       report.funds = (IF CashShort THEN "insufficient" ELSE "sufficient")
  /\ CashShort =>
       /\ pc \notin {"exited", "crashed"}
       /\ exit_status # 1
       /\ pc \in {"save_plan", "finish", "done"} =>
            /\ report.printed
            /\ report.cash_check.available_cash = plan.available_cash
       /\ (pc \in {"finish", "done"} /\ disk = "ok") =>
            /\ output_file.state = "complete"
            /\ Len(output_file.buy_rows) = Len(plan.buy_list)
            /\ Len(output_file.sell_rows) = Len(plan.sell_list)
       /\ pc = "done" => exit_status = 0

\* A finished run short of cash, warned of and written to the file.
ShortOfCashDone ==
  /\ pc = "done"
  /\ CashShort
  /\ report.funds = "insufficient"
  /\ output_file.state = "complete"

\* The positions file cannot be opened, or has a row that is no holding.
PositionsUnusable ==
  \/ ~positions_file.readable
  \/ \E i \in 2..Len(positions_file.lines) : positions_file.lines[i] = BadQuantityLine

StockSeq(list) == [i \in 1..Len(list) |-> list[i].stock]

NotTargeted(stock) == ~HasKey(target_positions, stock)

ToBuy(stock) == stock \in StocksOf(plan.buy_list)

ToSell(stock) == stock \in StocksOf(plan.sell_list)

ToHold(stock) == stock \in StocksOf(plan.no_action_list)

\* C12: the rebalancing mapping lists the instruments of the target
\* allocation in the allocation's order and after them the held instruments
\* that are not in the allocation, in the order of the holdings; buy_list,
\* sell_list and the hold list each keep the order of the mapping.
RebalancingOrder ==
  /\ Rebalanced =>
       StockSeq(rebalancing) =
         StockSeq(target_positions) \o SelectSeq(StockSeq(current_positions), NotTargeted)
  /\ PlanBuilt =>
       /\ StockSeq(plan.buy_list) = SelectSeq(StockSeq(rebalancing), ToBuy)
       /\ StockSeq(plan.sell_list) = SelectSeq(StockSeq(rebalancing), ToSell)
       /\ StockSeq(plan.no_action_list) = SelectSeq(StockSeq(rebalancing), ToHold)

\* A plan of two target instruments and two held ones that are not targets,
\* both of them to sell.
TwoTargetsTwoHeld ==
  /\ PlanBuilt
  /\ Len(target_positions) = 2
  /\ Len(SelectSeq(StockSeq(current_positions), NotTargeted)) = 2
  /\ Len(plan.sell_list) >= 2

\* C14: with no instrument requested calculate_target_positions raises
\* nothing (no division by zero ends the run) and returns the empty
\* allocation, whatever total_assets and the prices are.
EmptySelectionEmptyAllocation ==
  /\ pc = "crashed" => target_stocks # << >>
  /\ (Allocated /\ target_stocks = << >>) => target_positions = << >>

\* An allocation for no instrument, with prices of the holdings at hand.
NothingSelectedAllocated ==
  /\ Allocated
  /\ target_stocks = << >>
  /\ DOMAIN prices # {}

\* C15: every target_qty of an allocation is a non-negative multiple of the
\* lot size 100, for every total_assets, negative ones included.
TargetQtyInLots ==
  Allocated =>
    \A i \in 1..Len(target_positions) :
      /\ target_positions[i].target_qty >= 0
      /\ target_positions[i].target_qty % 100 = 0

\* C16: every entry of the rebalancing mapping, of a target instrument or of
\* one that is only held, has diff = target_qty - current_qty and action_qty =
\* |diff| >= 0, whatever integer the positions file gives as the quantity.
ActionQtyIsAbsDiff ==
  Rebalanced =>
    \A j \in 1..Len(rebalancing) :
      /\ rebalancing[j].diff = rebalancing[j].target_qty - rebalancing[j].current_qty
      /\ rebalancing[j].action_qty >= 0
      /\ rebalancing[j].action_qty =
           (IF rebalancing[j].diff >= 0 THEN rebalancing[j].diff ELSE -rebalancing[j].diff)

\* The entries of a list are of distinct stocks.
Distinct(list) == Cardinality(StocksOf(list)) = Len(list)

\* C19: the keys of the rebalancing mapping are the instruments of the target
\* allocation and the held instruments, each once, and every one of them is
\* in exactly one of buy_list, sell_list and the hold list, once.
OneListEach ==
  /\ Rebalanced =>
       /\ StocksOf(rebalancing) = Keys(target_positions) \cup Keys(current_positions)
       /\ Distinct(rebalancing)
  /\ PlanBuilt =>
       /\ StocksOf(plan.buy_list) \cup StocksOf(plan.sell_list)
            \cup StocksOf(plan.no_action_list) = StocksOf(rebalancing)
       /\ StocksOf(plan.buy_list) \cap StocksOf(plan.sell_list) = {}
       /\ StocksOf(plan.buy_list) \cap StocksOf(plan.no_action_list) = {}
       /\ StocksOf(plan.sell_list) \cap StocksOf(plan.no_action_list) = {}
       /\ Distinct(plan.buy_list) /\ Distinct(plan.sell_list)
       /\ Distinct(plan.no_action_list)

\* A plan with an instrument to buy, one to sell and one to hold.
AllThreeLists ==
  /\ PlanBuilt
  /\ plan.buy_list # << >>
  /\ plan.sell_list # << >>
  /\ plan.no_action_list # << >>

\* The quantity of the stock in a list of orders, 0 when it is not listed.
QuantityIn(orders, stock) ==
  IF \E i \in 1..Len(orders) : orders[i].stock = stock
  THEN orders[CHOOSE i \in 1..Len(orders) : orders[i].stock = stock].quantity
  ELSE 0

\* The target_qty of the allocation, 0 for a stock that is not allocated.
AllocatedQty(stock) ==
  IF \E i \in 1..Len(target_positions) : target_positions[i].stock = stock
  THEN target_positions[CHOOSE i \in 1..Len(target_positions) :
                          target_positions[i].stock = stock].target_qty
  ELSE 0

\* C20: for every instrument of the rebalancing mapping, current_qty plus the
\* quantity bought minus the quantity sold is target_qty, the allocated
\* target_qty of a target instrument and 0 for one that is only held.
PlanReachesTarget ==
  PlanBuilt =>
    \A j \in 1..Len(rebalancing) :
      /\ rebalancing[j].target_qty = AllocatedQty(rebalancing[j].stock)
      /\ rebalancing[j].current_qty = HeldQty(rebalancing[j].stock)
      /\ rebalancing[j].current_qty + QuantityIn(plan.buy_list, rebalancing[j].stock)
           - QuantityIn(plan.sell_list, rebalancing[j].stock)
           = rebalancing[j].target_qty

\* A plan that buys a target instrument, sells down another one and sells
\* out one that is only held.
BuysAndTwoKindsOfSells ==
  /\ PlanBuilt
  /\ plan.buy_list # << >>
  /\ \E i \in 1..Len(plan.sell_list) : ~NotTargeted(plan.sell_list[i].stock)
  /\ \E i \in 1..Len(plan.sell_list) : NotTargeted(plan.sell_list[i].stock)

\* What ReadRows says of a line.
RowOf(line) == CHOOSE r \in ReadRows : r.line = line

\* Line i is the last row of its instrument in the positions file.
LastRowOfStock(i) ==
  \A j \in (i + 1)..Len(positions_file.lines) :
    RowOf(positions_file.lines[j]).stock # RowOf(positions_file.lines[i]).stock

\* The row lacks the two prices, or the header their columns.
PricesMissing(i) ==
  ~RowOf(positions_file.lines[i]).priced \/ positions_file.lines[1] = QuantityHeader

\* The holding that read_current_positions is to make of line i.
HoldingOfRow(i) ==
  /\ HasKey(current_positions, RowOf(positions_file.lines[i]).stock)
  /\ LastRowOfStock(i) =>
       /\ Entry(current_positions, RowOf(positions_file.lines[i]).stock).quantity =
            RowOf(positions_file.lines[i]).quantity
       /\ PricesMissing(i) =>
            /\ Entry(current_positions, RowOf(positions_file.lines[i]).stock).cost_price
                 = FZero
            /\ Entry(current_positions, RowOf(positions_file.lines[i]).stock).current_price
                 = FZero

\* C18: read_current_positions makes a holding of every row that has an
\* instrument; a numeric field that the row lacks is 0 and does not end the
\* run, and the quantity is the decimal text truncated toward zero.
HoldingOfEveryRow ==
  pc # "read_positions" =>
    /\ pc = "get_prices"
    /\ \A i \in 2..Len(positions_file.lines) :
         RowOf(positions_file.lines[i]).stock # << >> => HoldingOfRow(i)

\* The stages of main in their order, and the end of a run.
Stages ==
  <<"read_selection", "read_positions", "get_prices", "calculate_target",
    "calculate_rebalancing", "generate_plan", "print_plan", "save_plan", "finish",
    "done">>

\* The stage is among the first n.
Within(stage, n) == \E k \in 1..n : Stages[k] = stage

\* to is the stage after from, or the run has ended at from.
Follows(from, to) ==
  \/ \E k \in 1..(Len(Stages) - 1) : Stages[k] = from /\ Stages[k + 1] = to
  \/ to \in {"exited", "crashed"}

\* The instruments of the selection and of the holdings.
Union == Requested \cup Keys(current_positions)

\* Once for every instrument of the union, and for no other.
LookedUpOnce(counts, found) ==
  /\ DOMAIN found = Union
  /\ DOMAIN counts = Union
  /\ \A s \in Union : counts[s] = 1

\* No stage after the present one has left a result.
NoneAhead(stage, looked, found, targets, actions, built, printed, file) ==
  /\ Within(stage, 3) => (looked = << >> /\ found = << >>)
  /\ Within(stage, 4) => targets = << >>
  /\ Within(stage, 5) => actions = << >>
  /\ Within(stage, 6) => built = NoPlan
  /\ Within(stage, 7) => ~printed
  /\ Within(stage, 8) => file = NoFile

\* C17: main runs its stages in the order read selection, read positions,
\* resolve prices, allocate, rebalance, build plan, print report, write file:
\* every step goes from a stage to the next one (or ends the run), no stage
\* leaves a result before its turn, and the price stage looks up every
\* distinct instrument of the selection and the holdings once.
StagesInOrder ==
  [][/\ Follows(pc, pc')
     /\ NoneAhead(pc', lookups', prices', target_positions', rebalancing', plan',
                  report'.printed, output_file')
     /\ (pc = "get_prices" => LookedUpOnce(lookups', prices'))]_vars

\* A finished run whose selection names an instrument twice that is held as
\* well.
SelectedTwiceAndHeld ==
  /\ pc = "done"
  /\ Len(target_stocks) = 2
  /\ target_stocks[1] = target_stocks[2]
  /\ HasKey(current_positions, target_stocks[1])
  /\ lookups[target_stocks[1]] = 1

\* No holding is a short position.
NothingShort == \A i \in 1..Len(current_positions) : current_positions[i].quantity >= 0

\* C21: with total_assets >= 0 and no negative held quantity, every quantity
\* of sell_list is at most the quantity held of that instrument, and
\* total_buy_amount is at most total_assets.
CoveredAndFunded ==
  (PlanBuilt /\ FLe(FZero, total_assets) /\ NothingShort) =>
    /\ \A i \in 1..Len(plan.sell_list) :
         plan.sell_list[i].quantity <= HeldQty(plan.sell_list[i].stock)
    /\ FLe(plan.total_buy_amount, total_assets)

\* The instrument of holding i was selected and has no usable price.
SelectedUnpriced(i) ==
  /\ current_positions[i].stock \in Requested
  /\ PriceInvalid(PriceGet(prices, current_positions[i].stock))

\* C22: an instrument that is selected and held, and whose price is missing
\* or <= 0, is no key of the target allocation; its rebalance action is a sell
\* with target_qty 0, and the plan's sell_list has it with the whole quantity
\* held, at the holding's current_price.
SelectedUnpricedIsSold ==
  \A i \in 1..Len(current_positions) :
    (Allocated /\ SelectedUnpriced(i)) =>
      /\ ~HasKey(target_positions, current_positions[i].stock)
      /\ Rebalanced =>
           \E j \in 1..Len(rebalancing) :
             /\ rebalancing[j].stock = current_positions[i].stock
             /\ rebalancing[j].target_qty = 0
             /\ rebalancing[j].action = SELL
             /\ rebalancing[j].action_qty = current_positions[i].quantity
      /\ PlanBuilt =>
           \E j \in 1..Len(plan.sell_list) :
             /\ plan.sell_list[j].stock = current_positions[i].stock
             /\ plan.sell_list[j].quantity = current_positions[i].quantity
             /\ plan.sell_list[j].price = current_positions[i].current_price

\* A plan for a selection of A and B where B got its allocation while A,
\* held in 500, closed at 0.
SelectedUnpricedSold ==
  /\ PlanBuilt
  /\ Len(target_positions) = 1
  /\ \E i \in 1..Len(current_positions) :
       /\ SelectedUnpriced(i)
       /\ current_positions[i].stock = StockA
       /\ current_positions[i].quantity = 500
       /\ prices[StockA] = FZero
       /\ \E j \in 1..Len(plan.sell_list) :
            plan.sell_list[j].stock = StockA /\ plan.sell_list[j].quantity = 500

\* The selection names an instrument more than once.
Repeated == Cardinality(Requested) < Len(target_stocks)

\* C23: when the selection repeats an instrument, the allocation still has
\* one entry for each instrument at most, and every entry has the weight
\* 1 / N and, for whole total_assets A >= 0 and a whole price p, the target
\* quantity floor(A / N / p / 100) * 100 of one share, N being the length of
\* the selection with its repetitions.
RepeatedSharesOnce ==
  (Allocated /\ Repeated) =>
    /\ Distinct(target_positions)
    /\ \A i \in 1..Len(target_positions) :
         /\ target_positions[i].stock \in Requested
         /\ target_positions[i].weight = FDiv(FFromInt(1), FFromInt(Len(target_stocks)))
         /\ (FLe(FZero, total_assets) /\ Whole(total_assets)
               /\ Whole(target_positions[i].price)) =>
              target_positions[i].target_qty =
                FloorLots(FTruncToInt(total_assets), Len(target_stocks),
                          FTruncToInt(target_positions[i].price))

\* A run that ended with A selected twice and 1000 to allocate: one entry of
\* 500 shares, the half of the assets at the price 1.
RepeatedOnceAllocated ==
  /\ pc = "done"
  /\ target_stocks = <<StockA, StockA>>
  /\ total_assets = FFromInt(1000)
  /\ Len(target_positions) = 1
  /\ target_positions[1].target_qty = 500

\* open() or a write of save_trading_plan has raised.
SaveFailed == disk \in {"open_fails", "write_fails"}

\* C24: when writing the output file fails, the run goes on to the completion
\* message with no complete file, and a run that ends after the completion
\* message has the exit status 0 whether the file was written or not.
SaveFailureNotFatal ==
  /\ SaveFailed =>
       /\ pc \in {"finish", "done"}
       /\ output_file.state # "complete"
       /\ pc = "finish" => exit_status = Running
  /\ pc = "done" => exit_status = 0 /\ report.printed

\* A run that ended after a write of the output file had failed.
SaveFailedAndDone ==
  /\ pc = "done"
  /\ disk = "write_fails"
  /\ output_file.state = "partial"
  /\ exit_status = 0

=============================================================================
